---- MODULE Spec2Model ----
(***************************************************************************)
(* Milestone escrow contract (contracts/stellapay/src/lib.rs).             *)
(*                                                                         *)
(* Execution model.  The contract's storage is the keyed store of the      *)
(* design document: get / set, a write is in the store as soon as it is    *)
(* made and stays there when the entry point returns, with Ok or with Err  *)
(* (the code itself is written for this store: it calls release_lock       *)
(* before its Err returns).  safe_transfer calls the token client's        *)
(* panicking transfer and then returns Ok(()): a transfer that fails does  *)
(* not return, it aborts the whole invocation and nothing the invocation   *)
(* wrote is kept.  While a transfer is running the token contract has      *)
(* control and may call back into any entry point.                         *)
(***************************************************************************)
EXTENDS Integers, Sequences, FiniteSets, TLC

\* ---------------------------------------------------------------- constants

MIN_DURATION == 3600
MAX_DURATION == 365 * 24 * 3600

\* Integer widths, reduced: the largest u32 (escrow ids, the counter), the
\* largest i128 (amounts) and the largest u64 (timestamps) of the model.
U32_MAX == 2
I128_MAX == 2
U64_MAX == 8999

\* The inputs of the calls.
MaxMilestones == 2
MaxAmount == 2
MaxNow == 7200
Mint == 2
\* The escrows that are created in the full specification (its guard on the
\* counter); the allocator's specification goes up to U32_MAX.
MaxEscrows == 1

TimeStep == MIN_DURATION

CONTRACT == "contract"
TOKEN == "token"
Callers == {"alice", "bob", "carol", "dave"}
Accounts == Callers \cup {CONTRACT}
Depositors == {"alice"}
Beneficiaries == {"alice", "bob"}
Arbiters == {"alice", "bob", "carol"}
Durations == {MIN_DURATION - 1, MIN_DURATION, MAX_DURATION + 1}
\* The lists of milestone amounts: every list of up to MaxMilestones amounts,
\* and the longer lists of zeros and largest amounts (their running total
\* overflows before the end of the list).
LongLists == [1..MaxMilestones + 1 -> {0, MaxAmount}]
AmountLists == UNION {[1..n -> 0..MaxAmount] : n \in 0..MaxMilestones} \cup LongLists
\* The lists of the allocator's specification.
ShortLists == {<<0>>, <<1>>, <<MaxAmount>>}
EscrowIds == 1..U32_MAX
LiveIds == 1..MaxEscrows
\* An id that no escrow has: the allocator starts at 1.
MissingId == 0
Indexes == 0..MaxMilestones
Pays == (0 - 1)..(MaxAmount + 1)

None == "None"
NoEscrow == [absent |-> TRUE]
NoCall == [op |-> "none"]
NoPend == [op |-> "none"]

VARIABLES
    lock,       \* instance storage, key "lock"
    counter,    \* persistent storage, key "counter"
    escrows,    \* persistent storage, keys ("escrows", id)
    bal,        \* the token contract's balances
    now,        \* the ledger timestamp
    call,       \* the invocation that is inside a token transfer, or NoCall
    last,       \* the call that returned last, and what it returned
    sentBen,    \* history: tokens moved to the beneficiary, per escrow and milestone
    sentDep     \* history: tokens moved from the contract to the depositor, per escrow

vars == <<lock, counter, escrows, bal, now, call, last, sentBen, sentDep>>

\* ---------------------------------------------------------------- helpers

RECURSIVE SumSeq(_)
SumSeq(s) == IF s = <<>> THEN 0 ELSE s[1] + SumSeq(Tail(s))

\* The contract's storage as one value.
Store == [lock |-> lock, counter |-> counter, escrows |-> escrows]

\* A handler has returned `res` (and the value `val`), leaving the store `st`.
Ret(st, res, val) == [res |-> res, val |-> val, st |-> st, pend |-> NoPend]

\* A handler has called the token contract and waits for the transfer `pend`.
Susp(st, pend) == [res |-> "InFlight", val |-> None, st |-> st, pend |-> pend]

\* ---------------------------------------------------------------- guard, store, allocator

\* acquire_lock without the test of the flag.
acquire_lock_unchecked(st) == [ok |-> TRUE, st |-> [st EXCEPT !.lock = TRUE]]

acquire_lock(st) ==
    IF st.lock
    THEN [ok |-> FALSE, st |-> st]
    ELSE [ok |-> TRUE, st |-> [st EXCEPT !.lock = TRUE]]

release_lock(st) == [st EXCEPT !.lock = FALSE]

load_escrow(st, id) ==
    IF id \in DOMAIN st.escrows THEN st.escrows[id] ELSE NoEscrow

\* store_escrow that writes the record under every id that has one.
store_escrow_everywhere(st, id, escrow) ==
    [st EXCEPT !.escrows = [j \in DOMAIN st.escrows |->
                                IF j = id \/ st.escrows[j] # NoEscrow
                                THEN escrow ELSE st.escrows[j]]]

store_escrow(st, id, escrow) == [st EXCEPT !.escrows[id] = escrow]

\* counter + 1, or 0 for the CounterOverflow error (no id is 0).
peek_next_id(st) == IF st.counter >= U32_MAX THEN 0 ELSE st.counter + 1

\* finalize_counter that does not write the counter.
finalize_counter_skipped(st, id) == st

finalize_counter(st, id) == [st EXCEPT !.counter = id]

\* The token contract moves `amount` from `from` to `to`.
Transfer(b, from, to, amount) ==
    [b EXCEPT ![from] = b[from] - amount, ![to] = b[to] + amount]

\* ---------------------------------------------------------------- create

\* The loop over milestone_amounts: the total, or the error of the first
\* amount that is not positive or overflows the running total.
\* The loop that looks for an amount that is not positive in the whole list
\* before it adds anything up.
total_loop_zero_first(amounts, i, total) ==
    IF \E k \in i..Len(amounts) : amounts[k] <= 0 THEN [err |-> "ZeroAmount", total |-> total]
    ELSE IF total + SumSeq(amounts) > I128_MAX THEN [err |-> "InvalidMilestone", total |-> total]
    ELSE [err |-> None, total |-> total + SumSeq(amounts)]

RECURSIVE total_loop(_, _, _)
total_loop(amounts, i, total) ==
    IF i > Len(amounts) THEN [err |-> None, total |-> total]
    ELSE IF amounts[i] <= 0 THEN [err |-> "ZeroAmount", total |-> total]
    ELSE IF total + amounts[i] > I128_MAX THEN [err |-> "InvalidMilestone", total |-> total]
    ELSE total_loop(amounts, i + 1, total + amounts[i])

\* Option<u64>: None and Some(t).
NoTime == <<>>
Some(t) == <<t>>

\* A milestone that is Submitted from the start.
NewMilestone_submitted(amount) ==
    [amount |-> amount, status |-> "Submitted", submitted_at |-> NoTime, approved_at |-> NoTime]

NewMilestone(amount) ==
    [amount |-> amount, status |-> "NotStarted", submitted_at |-> NoTime, approved_at |-> NoTime]

\* create that takes the next id before it looks at the amounts.
create_reserves_id(st, depositor, beneficiary, arbiter, milestone_amounts, token, duration, t) ==
    IF beneficiary = depositor THEN Ret(st, "InvalidBeneficiary", None)
    ELSE IF arbiter = depositor \/ arbiter = beneficiary THEN Ret(st, "InvalidArbiter", None)
    ELSE IF duration < MIN_DURATION \/ duration > MAX_DURATION THEN Ret(st, "InvalidDuration", None)
    ELSE IF Len(milestone_amounts) = 0 THEN Ret(st, "InvalidMilestone", None)
    ELSE LET sum == total_loop(milestone_amounts, 1, 0) IN
    IF sum.err # None THEN Ret(finalize_counter(st, st.counter + 1), sum.err, None)
    ELSE IF t + duration > U64_MAX THEN Ret(st, "InvalidDeadline", None)
    ELSE LET a == acquire_lock(st) IN
    IF ~a.ok THEN Ret(st, "Reentrancy", None)
    ELSE LET id == peek_next_id(a.st) IN
    IF id = 0 THEN Ret(a.st, "CounterOverflow", None)
    ELSE LET escrow == [depositor |-> depositor,
                        beneficiary |-> beneficiary,
                        arbiter |-> arbiter,
                        token |-> token,
                        total_amount |-> sum.total,
                        paid_amount |-> 0,
                        deadline |-> t + duration,
                        status |-> "Pending",
                        milestones |-> [i \in 1..Len(milestone_amounts) |->
                                            NewMilestone(milestone_amounts[i])],
                        work_started |-> FALSE] IN
    Susp(a.st, [op |-> "create", id |-> id, idx |-> 0, leg |-> "in", pay |-> 0,
                escrow |-> escrow, from |-> depositor, to |-> CONTRACT,
                amount |-> sum.total])

create(st, depositor, beneficiary, arbiter, milestone_amounts, token, duration, t) ==
    IF beneficiary = depositor THEN Ret(st, "InvalidBeneficiary", None)
    ELSE IF arbiter = depositor \/ arbiter = beneficiary THEN Ret(st, "InvalidArbiter", None)
    ELSE IF duration < MIN_DURATION \/ duration > MAX_DURATION THEN Ret(st, "InvalidDuration", None)
    ELSE IF Len(milestone_amounts) = 0 THEN Ret(st, "InvalidMilestone", None)
    ELSE LET sum == total_loop(milestone_amounts, 1, 0) IN
    IF sum.err # None THEN Ret(st, sum.err, None)
    ELSE IF t + duration > U64_MAX THEN Ret(st, "InvalidDeadline", None)
    ELSE LET a == acquire_lock(st) IN
    IF ~a.ok THEN Ret(st, "Reentrancy", None)
    ELSE LET id == peek_next_id(a.st) IN
    IF id = 0 THEN Ret(a.st, "CounterOverflow", None)
    ELSE LET escrow == [depositor |-> depositor,
                        beneficiary |-> beneficiary,
                        arbiter |-> arbiter,
                        token |-> token,
                        total_amount |-> sum.total,
                        paid_amount |-> 0,
                        deadline |-> t + duration,
                        status |-> "Pending",
                        milestones |-> [i \in 1..Len(milestone_amounts) |->
                                            NewMilestone(milestone_amounts[i])],
                        work_started |-> FALSE] IN
    Susp(a.st, [op |-> "create", id |-> id, idx |-> 0, leg |-> "in", pay |-> 0,
                escrow |-> escrow, from |-> depositor, to |-> CONTRACT,
                amount |-> sum.total])

\* ---------------------------------------------------------------- start_work

\* start_work without the test of the status.
start_work_any_status(st, caller, id, t) ==
    LET a == acquire_lock(st) IN
    IF ~a.ok THEN Ret(st, "Reentrancy", None)
    ELSE LET escrow == load_escrow(a.st, id) IN
    IF escrow = NoEscrow THEN Ret(a.st, "EscrowNotFound", None)
    ELSE IF caller # escrow.beneficiary THEN Ret(release_lock(a.st), "NotAuthorized", None)
    ELSE IF escrow.work_started THEN Ret(release_lock(a.st), "WorkStarted", None)
    ELSE LET e2 == [escrow EXCEPT !.work_started = TRUE, !.status = "InProgress"] IN
    Ret(release_lock(store_escrow(a.st, id, e2)), "Ok", None)

\* start_work that sets the status and forgets work_started.
start_work_no_flag(st, caller, id, t) ==
    LET a == acquire_lock(st) IN
    IF ~a.ok THEN Ret(st, "Reentrancy", None)
    ELSE LET escrow == load_escrow(a.st, id) IN
    IF escrow = NoEscrow THEN Ret(a.st, "EscrowNotFound", None)
    ELSE IF caller # escrow.beneficiary THEN Ret(release_lock(a.st), "NotAuthorized", None)
    ELSE IF escrow.work_started THEN Ret(release_lock(a.st), "WorkStarted", None)
    ELSE IF escrow.status # "Pending" THEN Ret(release_lock(a.st), "AlreadyCompleted", None)
    ELSE LET e2 == [escrow EXCEPT !.status = "InProgress"] IN
    Ret(release_lock(store_escrow(a.st, id, e2)), "Ok", None)

\* start_work that is refused from the deadline on.
start_work_before_deadline(st, caller, id, t) ==
    LET a == acquire_lock(st) IN
    IF ~a.ok THEN Ret(st, "Reentrancy", None)
    ELSE LET escrow == load_escrow(a.st, id) IN
    IF escrow = NoEscrow THEN Ret(a.st, "EscrowNotFound", None)
    ELSE IF caller # escrow.beneficiary THEN Ret(release_lock(a.st), "NotAuthorized", None)
    ELSE IF escrow.work_started THEN Ret(release_lock(a.st), "WorkStarted", None)
    ELSE IF escrow.status # "Pending" THEN Ret(release_lock(a.st), "AlreadyCompleted", None)
    ELSE IF t >= escrow.deadline THEN Ret(release_lock(a.st), "NotAuthorized", None)
    ELSE LET e2 == [escrow EXCEPT !.work_started = TRUE, !.status = "InProgress"] IN
    Ret(release_lock(store_escrow(a.st, id, e2)), "Ok", None)

\* start_work that tests the status before work_started.
start_work_status_first(st, caller, id, t) ==
    LET a == acquire_lock(st) IN
    IF ~a.ok THEN Ret(st, "Reentrancy", None)
    ELSE LET escrow == load_escrow(a.st, id) IN
    IF escrow = NoEscrow THEN Ret(a.st, "EscrowNotFound", None)
    ELSE IF caller # escrow.beneficiary THEN Ret(release_lock(a.st), "NotAuthorized", None)
    ELSE IF escrow.status # "Pending" THEN Ret(release_lock(a.st), "AlreadyCompleted", None)
    ELSE IF escrow.work_started THEN Ret(release_lock(a.st), "WorkStarted", None)
    ELSE LET e2 == [escrow EXCEPT !.work_started = TRUE, !.status = "InProgress"] IN
    Ret(release_lock(store_escrow(a.st, id, e2)), "Ok", None)

start_work(st, caller, id, t) ==
    LET a == acquire_lock(st) IN
    IF ~a.ok THEN Ret(st, "Reentrancy", None)
    ELSE LET escrow == load_escrow(a.st, id) IN
    IF escrow = NoEscrow THEN Ret(a.st, "EscrowNotFound", None)
    ELSE IF caller # escrow.beneficiary THEN Ret(release_lock(a.st), "NotAuthorized", None)
    ELSE IF escrow.work_started THEN Ret(release_lock(a.st), "WorkStarted", None)
    ELSE IF escrow.status # "Pending" THEN Ret(release_lock(a.st), "AlreadyCompleted", None)
    ELSE LET e2 == [escrow EXCEPT !.work_started = TRUE, !.status = "InProgress"] IN
    Ret(release_lock(store_escrow(a.st, id, e2)), "Ok", None)

\* ---------------------------------------------------------------- submit_milestone

\* submit_milestone without the test of the milestone's status.
submit_milestone_again(st, caller, id, milestone_index, t) ==
    LET a == acquire_lock(st) IN
    IF ~a.ok THEN Ret(st, "Reentrancy", None)
    ELSE LET escrow == load_escrow(a.st, id) IN
    IF escrow = NoEscrow THEN Ret(a.st, "EscrowNotFound", None)
    ELSE IF caller # escrow.beneficiary THEN Ret(release_lock(a.st), "NotAuthorized", None)
    ELSE IF escrow.status # "InProgress" THEN Ret(release_lock(a.st), "NotAuthorized", None)
    ELSE IF milestone_index >= Len(escrow.milestones)
         THEN Ret(release_lock(a.st), "InvalidMilestone", None)
    ELSE LET milestone == escrow.milestones[milestone_index + 1]
             m2 == [milestone EXCEPT !.status = "Submitted", !.submitted_at = Some(t)]
             e2 == [escrow EXCEPT !.milestones[milestone_index + 1] = m2] IN
    Ret(release_lock(store_escrow(a.st, id, e2)), "Ok", None)

submit_milestone(st, caller, id, milestone_index, t) ==
    LET a == acquire_lock(st) IN
    IF ~a.ok THEN Ret(st, "Reentrancy", None)
    ELSE LET escrow == load_escrow(a.st, id) IN
    IF escrow = NoEscrow THEN Ret(a.st, "EscrowNotFound", None)
    ELSE IF caller # escrow.beneficiary THEN Ret(release_lock(a.st), "NotAuthorized", None)
    ELSE IF escrow.status # "InProgress" THEN Ret(release_lock(a.st), "NotAuthorized", None)
    ELSE IF milestone_index >= Len(escrow.milestones)
         THEN Ret(release_lock(a.st), "InvalidMilestone", None)
    ELSE LET milestone == escrow.milestones[milestone_index + 1] IN
    IF milestone.status # "NotStarted"
    THEN Ret(release_lock(a.st), "MilestoneAlreadySubmitted", None)
    ELSE LET m2 == [milestone EXCEPT !.status = "Submitted", !.submitted_at = Some(t)]
             e2 == [escrow EXCEPT !.milestones[milestone_index + 1] = m2] IN
    Ret(release_lock(store_escrow(a.st, id, e2)), "Ok", None)

\* ---------------------------------------------------------------- approve_milestone

\* approve_milestone that adds the amount to paid_amount twice.
approve_milestone_twice(st, caller, id, milestone_index, t) ==
    LET a == acquire_lock(st) IN
    IF ~a.ok THEN Ret(st, "Reentrancy", None)
    ELSE LET escrow == load_escrow(a.st, id) IN
    IF escrow = NoEscrow THEN Ret(a.st, "EscrowNotFound", None)
    ELSE IF caller # escrow.depositor THEN Ret(release_lock(a.st), "NotAuthorized", None)
    ELSE IF milestone_index >= Len(escrow.milestones)
         THEN Ret(release_lock(a.st), "InvalidMilestone", None)
    ELSE LET milestone == escrow.milestones[milestone_index + 1] IN
    IF milestone.status # "Submitted"
    THEN Ret(release_lock(a.st), "MilestoneNotSubmitted", None)
    ELSE LET m2 == [milestone EXCEPT !.status = "Approved", !.approved_at = Some(t)]
             amount == m2.amount
             e2 == [escrow EXCEPT !.milestones[milestone_index + 1] = m2,
                                  !.paid_amount = escrow.paid_amount + amount + amount] IN
    Susp(store_escrow(a.st, id, e2),
         [op |-> "approve_milestone", id |-> id, idx |-> milestone_index, leg |-> "ben",
          pay |-> amount, escrow |-> e2, from |-> CONTRACT, to |-> e2.beneficiary,
          amount |-> amount])

\* approve_milestone that transfers the escrow's total_amount.
approve_milestone_pays_total(st, caller, id, milestone_index, t) ==
    LET a == acquire_lock(st) IN
    IF ~a.ok THEN Ret(st, "Reentrancy", None)
    ELSE LET escrow == load_escrow(a.st, id) IN
    IF escrow = NoEscrow THEN Ret(a.st, "EscrowNotFound", None)
    ELSE IF caller # escrow.depositor THEN Ret(release_lock(a.st), "NotAuthorized", None)
    ELSE IF milestone_index >= Len(escrow.milestones)
         THEN Ret(release_lock(a.st), "InvalidMilestone", None)
    ELSE LET milestone == escrow.milestones[milestone_index + 1] IN
    IF milestone.status # "Submitted"
    THEN Ret(release_lock(a.st), "MilestoneNotSubmitted", None)
    ELSE LET m2 == [milestone EXCEPT !.status = "Approved", !.approved_at = Some(t)]
             amount == m2.amount
             e2 == [escrow EXCEPT !.milestones[milestone_index + 1] = m2,
                                  !.paid_amount = escrow.paid_amount + amount] IN
    Susp(store_escrow(a.st, id, e2),
         [op |-> "approve_milestone", id |-> id, idx |-> milestone_index, leg |-> "ben",
          pay |-> amount, escrow |-> e2, from |-> CONTRACT, to |-> e2.beneficiary,
          amount |-> e2.total_amount])

approve_milestone(st, caller, id, milestone_index, t) ==
    LET a == acquire_lock(st) IN
    IF ~a.ok THEN Ret(st, "Reentrancy", None)
    ELSE LET escrow == load_escrow(a.st, id) IN
    IF escrow = NoEscrow THEN Ret(a.st, "EscrowNotFound", None)
    ELSE IF caller # escrow.depositor THEN Ret(release_lock(a.st), "NotAuthorized", None)
    ELSE IF milestone_index >= Len(escrow.milestones)
         THEN Ret(release_lock(a.st), "InvalidMilestone", None)
    ELSE LET milestone == escrow.milestones[milestone_index + 1] IN
    IF milestone.status # "Submitted"
    THEN Ret(release_lock(a.st), "MilestoneNotSubmitted", None)
    ELSE LET m2 == [milestone EXCEPT !.status = "Approved", !.approved_at = Some(t)]
             amount == m2.amount
             e2 == [escrow EXCEPT !.milestones[milestone_index + 1] = m2,
                                  !.paid_amount = escrow.paid_amount + amount] IN
    Susp(store_escrow(a.st, id, e2),
         [op |-> "approve_milestone", id |-> id, idx |-> milestone_index, leg |-> "ben",
          pay |-> amount, escrow |-> e2, from |-> CONTRACT, to |-> e2.beneficiary,
          amount |-> amount])

\* ---------------------------------------------------------------- dispute_milestone

\* dispute_milestone that moves the deadline to the time of the dispute.
dispute_milestone_moves_deadline(st, caller, id, milestone_index, t) ==
    LET a == acquire_lock(st) IN
    IF ~a.ok THEN Ret(st, "Reentrancy", None)
    ELSE LET escrow == load_escrow(a.st, id) IN
    IF escrow = NoEscrow THEN Ret(a.st, "EscrowNotFound", None)
    ELSE IF caller # escrow.depositor THEN Ret(release_lock(a.st), "NotAuthorized", None)
    ELSE IF milestone_index >= Len(escrow.milestones)
         THEN Ret(release_lock(a.st), "InvalidMilestone", None)
    ELSE LET milestone == escrow.milestones[milestone_index + 1] IN
    IF milestone.status # "Submitted"
    THEN Ret(release_lock(a.st), "MilestoneNotSubmitted", None)
    ELSE LET m2 == [milestone EXCEPT !.status = "Disputed"]
             e2 == [escrow EXCEPT !.milestones[milestone_index + 1] = m2,
                                  !.status = "Disputed", !.deadline = t + 1] IN
    Ret(release_lock(store_escrow(a.st, id, e2)), "Ok", None)

dispute_milestone(st, caller, id, milestone_index, t) ==
    LET a == acquire_lock(st) IN
    IF ~a.ok THEN Ret(st, "Reentrancy", None)
    ELSE LET escrow == load_escrow(a.st, id) IN
    IF escrow = NoEscrow THEN Ret(a.st, "EscrowNotFound", None)
    ELSE IF caller # escrow.depositor THEN Ret(release_lock(a.st), "NotAuthorized", None)
    ELSE IF milestone_index >= Len(escrow.milestones)
         THEN Ret(release_lock(a.st), "InvalidMilestone", None)
    ELSE LET milestone == escrow.milestones[milestone_index + 1] IN
    IF milestone.status # "Submitted"
    THEN Ret(release_lock(a.st), "MilestoneNotSubmitted", None)
    ELSE LET m2 == [milestone EXCEPT !.status = "Disputed"]
             e2 == [escrow EXCEPT !.milestones[milestone_index + 1] = m2,
                                  !.status = "Disputed"] IN
    Ret(release_lock(store_escrow(a.st, id, e2)), "Ok", None)

\* ---------------------------------------------------------------- resolve_milestone_dispute

\* The second half of resolve_milestone_dispute: the refund leg, or, with
\* nothing to refund, the writes that end the operation.
\* The second half without the refund leg.
resolve_refund_leg_skipped(st, id, milestone_index, pay_to_beneficiary, escrow) ==
    LET milestone == escrow.milestones[milestone_index + 1]
        m2 == [milestone EXCEPT !.status = "Approved"]
        e2 == [escrow EXCEPT !.milestones[milestone_index + 1] = m2,
                             !.status = "InProgress"] IN
    Ret(release_lock(store_escrow(st, id, e2)), "Ok", None)

resolve_refund_leg(st, id, milestone_index, pay_to_beneficiary, escrow) ==
    LET milestone == escrow.milestones[milestone_index + 1]
        refund_amount == milestone.amount - pay_to_beneficiary IN
    IF refund_amount > 0
    THEN Susp(st, [op |-> "resolve_milestone_dispute", id |-> id, idx |-> milestone_index,
                   leg |-> "dep", pay |-> pay_to_beneficiary, escrow |-> escrow,
                   from |-> CONTRACT, to |-> escrow.depositor, amount |-> refund_amount])
    ELSE LET m2 == [milestone EXCEPT !.status = "Approved"]
             e2 == [escrow EXCEPT !.milestones[milestone_index + 1] = m2,
                                  !.status = "InProgress"] IN
         Ret(release_lock(store_escrow(st, id, e2)), "Ok", None)

resolve_finish(st, id, milestone_index, escrow) ==
    LET milestone == escrow.milestones[milestone_index + 1]
        m2 == [milestone EXCEPT !.status = "Approved"]
        e2 == [escrow EXCEPT !.milestones[milestone_index + 1] = m2,
                             !.status = "InProgress"] IN
    Ret(release_lock(store_escrow(st, id, e2)), "Ok", None)

resolve_milestone_dispute(st, caller, id, milestone_index, pay_to_beneficiary, t) ==
    LET a == acquire_lock(st) IN
    IF ~a.ok THEN Ret(st, "Reentrancy", None)
    ELSE LET escrow == load_escrow(a.st, id) IN
    IF escrow = NoEscrow THEN Ret(a.st, "EscrowNotFound", None)
    ELSE IF caller # escrow.arbiter THEN Ret(release_lock(a.st), "NotAuthorized", None)
    ELSE IF milestone_index >= Len(escrow.milestones)
         THEN Ret(release_lock(a.st), "InvalidMilestone", None)
    ELSE LET milestone == escrow.milestones[milestone_index + 1] IN
    IF milestone.status # "Disputed" THEN Ret(release_lock(a.st), "NotAuthorized", None)
    ELSE IF pay_to_beneficiary < 0 \/ pay_to_beneficiary > milestone.amount
         THEN Ret(release_lock(a.st), "InvalidMilestone", None)
    ELSE IF pay_to_beneficiary > 0
         THEN Susp(a.st, [op |-> "resolve_milestone_dispute", id |-> id,
                          idx |-> milestone_index, leg |-> "ben",
                          pay |-> pay_to_beneficiary, escrow |-> escrow,
                          from |-> CONTRACT, to |-> escrow.beneficiary,
                          amount |-> pay_to_beneficiary])
    ELSE resolve_refund_leg(a.st, id, milestone_index, pay_to_beneficiary, escrow)

\* ---------------------------------------------------------------- refund

\* refund that writes the Refunded status before it tests the deadline.
refund_store_first(st, caller, id, t) ==
    LET a == acquire_lock(st) IN
    IF ~a.ok THEN Ret(st, "Reentrancy", None)
    ELSE LET escrow == load_escrow(a.st, id) IN
    IF escrow = NoEscrow THEN Ret(a.st, "EscrowNotFound", None)
    ELSE IF caller # escrow.depositor THEN Ret(release_lock(a.st), "NotAuthorized", None)
    ELSE IF escrow.work_started THEN Ret(release_lock(a.st), "WorkStarted", None)
    ELSE IF escrow.status # "Pending" THEN Ret(release_lock(a.st), "AlreadyCompleted", None)
    ELSE LET e2 == [escrow EXCEPT !.status = "Refunded"]
             refund_amount == e2.total_amount - e2.paid_amount IN
    IF t >= escrow.deadline
    THEN Ret(release_lock(store_escrow(a.st, id, e2)), "NotAuthorized", None)
    ELSE Susp(store_escrow(a.st, id, e2),
              [op |-> "refund", id |-> id, idx |-> 0, leg |-> "dep", pay |-> 0,
               escrow |-> e2, from |-> CONTRACT, to |-> e2.depositor,
               amount |-> refund_amount])

\* refund without the test of work_started.
refund_after_work(st, caller, id, t) ==
    LET a == acquire_lock(st) IN
    IF ~a.ok THEN Ret(st, "Reentrancy", None)
    ELSE LET escrow == load_escrow(a.st, id) IN
    IF escrow = NoEscrow THEN Ret(a.st, "EscrowNotFound", None)
    ELSE IF caller # escrow.depositor THEN Ret(release_lock(a.st), "NotAuthorized", None)
    ELSE IF t >= escrow.deadline THEN Ret(release_lock(a.st), "NotAuthorized", None)
    ELSE LET e2 == [escrow EXCEPT !.status = "Refunded"]
             refund_amount == e2.total_amount - e2.paid_amount IN
    Susp(store_escrow(a.st, id, e2),
         [op |-> "refund", id |-> id, idx |-> 0, leg |-> "dep", pay |-> 0,
          escrow |-> e2, from |-> CONTRACT, to |-> e2.depositor,
          amount |-> refund_amount])

\* refund that keeps one token in the contract.
refund_less_one(st, caller, id, t) ==
    LET a == acquire_lock(st) IN
    IF ~a.ok THEN Ret(st, "Reentrancy", None)
    ELSE LET escrow == load_escrow(a.st, id) IN
    IF escrow = NoEscrow THEN Ret(a.st, "EscrowNotFound", None)
    ELSE IF caller # escrow.depositor THEN Ret(release_lock(a.st), "NotAuthorized", None)
    ELSE IF escrow.work_started THEN Ret(release_lock(a.st), "WorkStarted", None)
    ELSE IF escrow.status # "Pending" THEN Ret(release_lock(a.st), "AlreadyCompleted", None)
    ELSE IF t >= escrow.deadline THEN Ret(release_lock(a.st), "NotAuthorized", None)
    ELSE LET e2 == [escrow EXCEPT !.status = "Refunded"]
             refund_amount == e2.total_amount - e2.paid_amount - 1 IN
    Susp(store_escrow(a.st, id, e2),
         [op |-> "refund", id |-> id, idx |-> 0, leg |-> "dep", pay |-> 0,
          escrow |-> e2, from |-> CONTRACT, to |-> e2.depositor,
          amount |-> refund_amount])

refund(st, caller, id, t) ==
    LET a == acquire_lock(st) IN
    IF ~a.ok THEN Ret(st, "Reentrancy", None)
    ELSE LET escrow == load_escrow(a.st, id) IN
    IF escrow = NoEscrow THEN Ret(a.st, "EscrowNotFound", None)
    ELSE IF caller # escrow.depositor THEN Ret(release_lock(a.st), "NotAuthorized", None)
    ELSE IF escrow.work_started THEN Ret(release_lock(a.st), "WorkStarted", None)
    ELSE IF escrow.status # "Pending" THEN Ret(release_lock(a.st), "AlreadyCompleted", None)
    ELSE IF t >= escrow.deadline THEN Ret(release_lock(a.st), "NotAuthorized", None)
    ELSE LET e2 == [escrow EXCEPT !.status = "Refunded"]
             refund_amount == e2.total_amount - e2.paid_amount IN
    Susp(store_escrow(a.st, id, e2),
         [op |-> "refund", id |-> id, idx |-> 0, leg |-> "dep", pay |-> 0,
          escrow |-> e2, from |-> CONTRACT, to |-> e2.depositor,
          amount |-> refund_amount])

\* ---------------------------------------------------------------- after a transfer

\* after_transfer that adds the whole milestone amount to paid_amount when a
\* dispute is resolved.
after_transfer_whole_amount(st, pend) ==
    CASE pend.op = "create" ->
            Ret(release_lock(finalize_counter(store_escrow(st, pend.id, pend.escrow), pend.id)),
                "Ok", pend.id)
      [] pend.op = "approve_milestone" -> Ret(release_lock(st), "Ok", None)
      [] pend.op = "refund" -> Ret(release_lock(st), "Ok", None)
      [] pend.op = "resolve_milestone_dispute" /\ pend.leg = "ben" ->
            resolve_refund_leg(st, pend.id, pend.idx, pend.pay,
                [pend.escrow EXCEPT !.paid_amount =
                    pend.escrow.paid_amount + pend.escrow.milestones[pend.idx + 1].amount])
      [] pend.op = "resolve_milestone_dispute" /\ pend.leg = "dep" ->
            resolve_finish(st, pend.id, pend.idx, pend.escrow)

\* after_transfer that sets the status Released when the last milestone has
\* been approved.
after_transfer_releases(st, pend) ==
    CASE pend.op = "create" ->
            Ret(release_lock(finalize_counter(store_escrow(st, pend.id, pend.escrow), pend.id)),
                "Ok", pend.id)
      [] pend.op = "approve_milestone" ->
            IF \A i \in 1..Len(pend.escrow.milestones) :
                    pend.escrow.milestones[i].status = "Approved"
            THEN Ret(release_lock(store_escrow(st, pend.id,
                        [pend.escrow EXCEPT !.status = "Released"])), "Ok", None)
            ELSE Ret(release_lock(st), "Ok", None)
      [] pend.op = "refund" -> Ret(release_lock(st), "Ok", None)
      [] pend.op = "resolve_milestone_dispute" /\ pend.leg = "ben" ->
            resolve_refund_leg(st, pend.id, pend.idx, pend.pay,
                [pend.escrow EXCEPT !.paid_amount = pend.escrow.paid_amount + pend.pay])
      [] pend.op = "resolve_milestone_dispute" /\ pend.leg = "dep" ->
            resolve_finish(st, pend.id, pend.idx, pend.escrow)

\* The code that runs when safe_transfer has returned Ok: from the transfer
\* `pend` to the next transfer or to the return of the entry point.
after_transfer(st, pend) ==
    CASE pend.op = "create" ->
            Ret(release_lock(finalize_counter(store_escrow(st, pend.id, pend.escrow), pend.id)),
                "Ok", pend.id)
      [] pend.op = "approve_milestone" -> Ret(release_lock(st), "Ok", None)
      [] pend.op = "refund" -> Ret(release_lock(st), "Ok", None)
      [] pend.op = "resolve_milestone_dispute" /\ pend.leg = "ben" ->
            resolve_refund_leg(st, pend.id, pend.idx, pend.pay,
                [pend.escrow EXCEPT !.paid_amount = pend.escrow.paid_amount + pend.pay])
      [] pend.op = "resolve_milestone_dispute" /\ pend.leg = "dep" ->
            resolve_finish(st, pend.id, pend.idx, pend.escrow)

\* ---------------------------------------------------------------- reads

get_escrow(st, id) ==
    LET escrow == load_escrow(st, id) IN
    IF escrow = NoEscrow THEN Ret(st, "EscrowNotFound", None) ELSE Ret(st, "Ok", escrow)

next_id(st) ==
    LET id == peek_next_id(st) IN
    IF id = 0 THEN Ret(st, "CounterOverflow", None) ELSE Ret(st, "Ok", id)

\* ---------------------------------------------------------------- the token contract

\* The balances and the history of payouts as one value.
Ledger == [bal |-> bal, sentBen |-> sentBen, sentDep |-> sentDep]

\* The transfer `pend` has happened.
Moved(g, pend) ==
    [bal |-> Transfer(g.bal, pend.from, pend.to, pend.amount),
     sentBen |-> IF pend.from = CONTRACT /\ pend.leg = "ben"
                 THEN [g.sentBen EXCEPT ![pend.id][pend.idx + 1] = @ + pend.amount]
                 ELSE g.sentBen,
     sentDep |-> IF pend.from = CONTRACT /\ pend.leg = "dep"
                 THEN [g.sentDep EXCEPT ![pend.id] = @ + pend.amount]
                 ELSE g.sentDep]

\* A call made from inside a transfer runs to its end at once: each of its own
\* transfers happens if the sender has the tokens, and panics otherwise.
RECURSIVE Settle(_, _)
Settle(r, g) ==
    IF r.res # "InFlight" THEN [panic |-> FALSE, r |-> r, g |-> g]
    ELSE IF g.bal[r.pend.from] < r.pend.amount THEN [panic |-> TRUE, r |-> r, g |-> g]
    ELSE Settle(after_transfer(r.st, r.pend), Moved(g, r.pend))

Invoke(op, st, caller, id, idx, pay, t) ==
    CASE op = "start_work" -> start_work(st, caller, id, t)
      [] op = "submit_milestone" -> submit_milestone(st, caller, id, idx, t)
      [] op = "approve_milestone" -> approve_milestone(st, caller, id, idx, t)
      [] op = "dispute_milestone" -> dispute_milestone(st, caller, id, idx, t)
      [] op = "resolve_milestone_dispute" -> resolve_milestone_dispute(st, caller, id, idx, pay, t)
      [] op = "refund" -> refund(st, caller, id, t)

IdOps == {"start_work", "submit_milestone", "approve_milestone", "dispute_milestone",
          "resolve_milestone_dispute", "refund"}

\* ---------------------------------------------------------------- the state machine

Returned(op, caller, id, res, val, nested) ==
    [op |-> op, caller |-> caller, id |-> id, res |-> res, val |-> val, nested |-> nested]

NoResult == Returned("none", None, MissingId, None, None, FALSE)

\* The result that `last` shows while the invocation c is inside a transfer.
Pending(c) == Returned(c.op, c.caller, c.id, "InFlight", None, FALSE)

\* The result of the last call has been taken: the next call can be made.
Quiet == last = IF call = NoCall THEN NoResult ELSE Pending(call)

Init ==
    /\ lock = FALSE
    /\ counter = 0
    /\ escrows = [id \in EscrowIds |-> NoEscrow]
    /\ bal = [a \in Accounts |-> IF a \in Depositors THEN Mint ELSE 0]
    /\ now = 0
    /\ call = NoCall
    /\ last = NoResult
    /\ sentBen = [id \in EscrowIds |-> [i \in 1..MaxMilestones |-> 0]]
    /\ sentDep = [id \in EscrowIds |-> 0]

\* An entry point called from outside has run up to its return or up to its
\* first transfer: r is what the handler made of the store.
Entered(op, caller, id, r) ==
    /\ lock' = r.st.lock
    /\ counter' = r.st.counter
    /\ escrows' = r.st.escrows
    /\ IF r.res = "InFlight"
       THEN call' = [op |-> op, caller |-> caller, id |-> id, pend |-> r.pend,
                     saved |-> [st |-> Store, g |-> Ledger]]
       ELSE call' = NoCall
    /\ last' = Returned(op, caller, id, r.res, r.val, FALSE)
    /\ UNCHANGED <<bal, now, sentBen, sentDep>>

Create(depositor, beneficiary, arbiter, milestone_amounts, duration) ==
    /\ call = NoCall /\ Quiet
    /\ Entered("create", depositor, 0,
               create(Store, depositor, beneficiary, arbiter, milestone_amounts, TOKEN,
                      duration, now))

StartWork(caller, id) ==
    /\ call = NoCall /\ Quiet
    /\ Entered("start_work", caller, id, start_work(Store, caller, id, now))

SubmitMilestone(caller, id, idx) ==
    /\ call = NoCall /\ Quiet
    /\ Entered("submit_milestone", caller, id,
               submit_milestone(Store, caller, id, idx, now))

ApproveMilestone(caller, id, idx) ==
    /\ call = NoCall /\ Quiet
    /\ Entered("approve_milestone", caller, id,
               approve_milestone(Store, caller, id, idx, now))

DisputeMilestone(caller, id, idx) ==
    /\ call = NoCall /\ Quiet
    /\ Entered("dispute_milestone", caller, id,
               dispute_milestone(Store, caller, id, idx, now))

ResolveMilestoneDispute(caller, id, idx, pay) ==
    /\ call = NoCall /\ Quiet
    /\ Entered("resolve_milestone_dispute", caller, id,
               resolve_milestone_dispute(Store, caller, id, idx, pay, now))

Refund(caller, id) ==
    /\ call = NoCall /\ Quiet
    /\ Entered("refund", caller, id, refund(Store, caller, id, now))

\* A call on an id that no escrow has.
OnMissing(op, caller) ==
    /\ call = NoCall /\ Quiet
    /\ Entered(op, caller, MissingId, Invoke(op, Store, caller, MissingId, 0, 0, now))

\* The token contract has moved the tokens and safe_transfer returns Ok: the
\* entry point goes on to its next transfer or to its return.
TransferReturns ==
    /\ call # NoCall /\ Quiet
    /\ bal[call.pend.from] >= call.pend.amount
    /\ LET r == after_transfer(Store, call.pend)
           g == Moved(Ledger, call.pend) IN
       /\ lock' = r.st.lock
       /\ counter' = r.st.counter
       /\ escrows' = r.st.escrows
       /\ bal' = g.bal
       /\ sentBen' = g.sentBen
       /\ sentDep' = g.sentDep
       /\ call' = IF r.res = "InFlight" THEN [call EXCEPT !.pend = r.pend] ELSE NoCall
       /\ last' = Returned(call.op, call.caller, call.id, r.res, r.val, FALSE)
    /\ UNCHANGED now

\* An abort that undoes the writes of the invocation and not its transfers.
Aborted_keeps_ledger ==
    /\ lock' = call.saved.st.lock
    /\ counter' = call.saved.st.counter
    /\ escrows' = call.saved.st.escrows
    /\ call' = NoCall
    /\ last' = Returned(call.op, call.caller, call.id, "Panic", None, FALSE)
    /\ UNCHANGED <<bal, sentBen, sentDep, now>>

\* The invocation is aborted and everything it did is undone.
Aborted ==
    /\ lock' = call.saved.st.lock
    /\ counter' = call.saved.st.counter
    /\ escrows' = call.saved.st.escrows
    /\ bal' = call.saved.g.bal
    /\ sentBen' = call.saved.g.sentBen
    /\ sentDep' = call.saved.g.sentDep
    /\ call' = NoCall
    /\ last' = Returned(call.op, call.caller, call.id, "Panic", None, FALSE)
    /\ UNCHANGED now

\* The token client's transfer panics.
TransferPanics ==
    /\ call # NoCall /\ Quiet
    /\ Aborted

\* A call made from inside a transfer has run to its end.
Nested(op, caller, id, r0) ==
    LET s == Settle(r0, Ledger) IN
    IF s.panic
    THEN Aborted
    ELSE /\ lock' = s.r.st.lock
         /\ counter' = s.r.st.counter
         /\ escrows' = s.r.st.escrows
         /\ bal' = s.g.bal
         /\ sentBen' = s.g.sentBen
         /\ sentDep' = s.g.sentDep
         /\ last' = Returned(op, caller, id, s.r.res, s.r.val, TRUE)
         /\ UNCHANGED <<now, call>>

\* The token contract calls back into a mutating entry point.
Reenter(op, caller, id, idx, pay) ==
    /\ call # NoCall /\ Quiet
    /\ Nested(op, caller, id, Invoke(op, Store, caller, id, idx, pay, now))

ReenterCreate(depositor, beneficiary, arbiter, milestone_amounts, duration) ==
    /\ call # NoCall /\ Quiet
    /\ Nested("create", depositor, 0,
              create(Store, depositor, beneficiary, arbiter, milestone_amounts, TOKEN,
                     duration, now))

\* The reads take no lock: they run at rest and from inside a transfer alike.
GetEscrow(id) ==
    /\ Quiet
    /\ last' = Returned("get_escrow", None, id, get_escrow(Store, id).res,
                        get_escrow(Store, id).val, call # NoCall)
    /\ UNCHANGED <<lock, counter, escrows, bal, now, call, sentBen, sentDep>>

NextId ==
    /\ Quiet
    /\ last' = Returned("next_id", None, 0, next_id(Store).res, next_id(Store).val,
                        call # NoCall)
    /\ UNCHANGED <<lock, counter, escrows, bal, now, call, sentBen, sentDep>>

\* The caller has the result of its call.
ResultTaken ==
    /\ ~Quiet
    /\ last' = IF call = NoCall THEN NoResult ELSE Pending(call)
    /\ UNCHANGED <<lock, counter, escrows, bal, now, call, sentBen, sentDep>>

\* The ledger closes and the next one has a later timestamp.
AdvanceTime ==
    /\ call = NoCall /\ Quiet
    /\ now + TimeStep <= MaxNow
    /\ now' = now + TimeStep
    /\ UNCHANGED <<lock, counter, escrows, bal, call, last, sentBen, sentDep>>

Next ==
    \/ /\ counter < MaxEscrows
       /\ \E d \in Depositors, b \in Beneficiaries, a \in Arbiters, ms \in AmountLists,
             du \in Durations : Create(d, b, a, ms, du)
    \/ \E c \in Callers, id \in LiveIds : StartWork(c, id)
    \/ \E c \in Callers, id \in LiveIds, i \in Indexes : SubmitMilestone(c, id, i)
    \/ \E c \in Callers, id \in LiveIds, i \in Indexes : ApproveMilestone(c, id, i)
    \/ \E c \in Callers, id \in LiveIds, i \in Indexes : DisputeMilestone(c, id, i)
    \/ \E c \in Callers, id \in LiveIds, i \in Indexes, p \in Pays :
          ResolveMilestoneDispute(c, id, i, p)
    \/ \E c \in Callers, id \in LiveIds : Refund(c, id)
    \/ \E op \in IdOps, c \in Callers : OnMissing(op, c)
    \/ TransferReturns
    \/ TransferPanics
    \/ \E op \in {"start_work", "refund"}, c \in Callers, id \in LiveIds :
          Reenter(op, c, id, 0, 0)
    \/ \E op \in {"submit_milestone", "approve_milestone", "dispute_milestone"},
          c \in Callers, id \in LiveIds, i \in Indexes : Reenter(op, c, id, i, 0)
    \/ \E c \in Callers, id \in LiveIds, i \in Indexes, p \in Pays :
          Reenter("resolve_milestone_dispute", c, id, i, p)
    \/ \E op \in IdOps, c \in Callers : Reenter(op, c, MissingId, 0, 0)
    \/ \E d \in Depositors, b \in Beneficiaries, a \in Arbiters, ms \in AmountLists,
          du \in Durations : ReenterCreate(d, b, a, ms, du)
    \/ \E id \in LiveIds \cup {MissingId} : GetEscrow(id)
    \/ NextId
    \/ ResultTaken
    \/ AdvanceTime

Spec == Init /\ [][Next]_vars

\* The allocator's specification: escrows of one milestone are created up to
\* the largest id and past it, started, refunded, submitted and approved.
NextIds ==
    \/ \E d \in Depositors, ms \in ShortLists : Create(d, "bob", "carol", ms, MIN_DURATION)
    \/ \E c \in {"alice", "bob"}, id \in EscrowIds : StartWork(c, id)
    \/ \E c \in {"alice", "bob"}, id \in EscrowIds : Refund(c, id)
    \/ \E c \in {"alice", "bob"}, id \in EscrowIds : SubmitMilestone(c, id, 0)
    \/ \E c \in {"alice", "bob"}, id \in EscrowIds : ApproveMilestone(c, id, 0)
    \/ TransferReturns
    \/ TransferPanics
    \/ \E d \in Depositors, ms \in ShortLists :
          ReenterCreate(d, "bob", "carol", ms, MIN_DURATION)
    \/ \E id \in EscrowIds : GetEscrow(id)
    \/ NextId
    \/ ResultTaken
    \/ AdvanceTime

SpecIds == Init /\ [][NextIds]_vars

\* ---------------------------------------------------------------- properties

MutatingOps == IdOps \cup {"create"}

Exists(id) == id \in EscrowIds /\ escrows[id] # NoEscrow

\* The records as they were when no invocation was running.
AtRestEscrows == IF call = NoCall THEN escrows ELSE call.saved.st.escrows

\* C1: when a mutating operation has returned with anything but the Reentrancy
\* error of its own acquire, the lock flag is false (the guard is free whenever
\* no invocation is running).
C1_LockFreeAfterReturn ==
    (call = NoCall /\ last.op \in MutatingOps /\ last.res # "Reentrancy") => lock = FALSE

\* C2 as claimed: a mutating operation entered from inside the transfer of
\* another one fails with Reentrancy and changes no record, not the counter
\* and not the lock the outer operation holds.
C2_ReentrantCallFailsWithReentrancy ==
    [][(call # NoCall /\ last'.nested /\ last'.op \in MutatingOps)
        => /\ last'.res = "Reentrancy"
           /\ escrows' = escrows
           /\ counter' = counter
           /\ lock' = lock]_vars

\* The errors of create's validation, which runs before acquire_lock.
CreateValidationErrors ==
    {"InvalidBeneficiary", "InvalidArbiter", "InvalidDuration", "InvalidMilestone",
     "ZeroAmount", "InvalidDeadline"}

\* C2 as amended: a mutating operation entered from inside the transfer of
\* another one fails, with Reentrancy or, for a create with invalid arguments,
\* with the error of create's validation, and changes no record, not the
\* counter, not the lock the outer operation holds, and no balance.
C2_ReentrantCallFails ==
    [][(call # NoCall /\ last'.nested /\ last'.op \in MutatingOps)
        => /\ \/ last'.res = "Reentrancy"
              \/ last'.op = "create" /\ last'.res \in CreateValidationErrors
           /\ escrows' = escrows
           /\ counter' = counter
           /\ lock' = lock
           /\ lock
           /\ bal' = bal
           /\ call' = call]_vars

C2_Witness ==
    /\ call # NoCall
    /\ call.op = "approve_milestone"
    /\ last.nested
    /\ last.op = "refund"
    /\ last.res = "Reentrancy"

\* C3: every record that get_escrow returns shows a paid_amount equal to the
\* tokens of that escrow that have been moved to the beneficiary.
C3_ReadPaidAmountIsTransferred ==
    (last.op = "get_escrow" /\ last.res = "Ok")
        => last.val.paid_amount = SumSeq(sentBen[last.id])

\* C4: when approve_milestone or refund ends with an error (an error it
\* returns, or the panic of its transfer), the records are what they were
\* before the call.
C4_NoPartialCommit ==
    [][(last' # last /\ last'.op \in {"approve_milestone", "refund"}
            /\ last'.res \notin {"Ok", "InFlight"})
        => escrows' = (IF last'.nested THEN escrows ELSE AtRestEscrows)]_vars

C4_Witness ==
    /\ call = NoCall
    /\ last.op = "refund"
    /\ last.res = "Panic"
    /\ Exists(last.id)
    /\ escrows[last.id].status = "Pending"

\* C5: whenever no invocation is running, 0 <= paid_amount <= total_amount
\* for every escrow, and paid_amount is not less than it was before the
\* invocation that has just ended.
C5_PaidAmountBoundedAndMonotonic ==
    [][call' = NoCall =>
        \A id \in EscrowIds :
            escrows'[id] # NoEscrow =>
                /\ 0 <= escrows'[id].paid_amount
                /\ escrows'[id].paid_amount <= escrows'[id].total_amount
                /\ AtRestEscrows[id] # NoEscrow =>
                       escrows'[id].paid_amount >= AtRestEscrows[id].paid_amount]_vars

C5_Witness ==
    /\ call = NoCall
    /\ last.op = "approve_milestone"
    /\ last.res = "Ok"
    /\ escrows[last.id].paid_amount = escrows[last.id].total_amount
    /\ Len(escrows[last.id].milestones) = 2

\* What the milestone i of the escrow e (id) counts for in paid_amount.
PaidFor(id, e, i) == IF e.milestones[i].status = "Approved" THEN sentBen[id][i] ELSE 0

\* C6: whenever no invocation is running, paid_amount is the sum over the
\* Approved milestones of what was moved to the beneficiary for each: the whole
\* amount for a milestone approved by approve_milestone (approved_at is set),
\* at most the amount for one resolved by the arbiter, nothing for the others.
C6_PaidAmountIsSumOfApproved ==
    call = NoCall =>
        \A id \in EscrowIds :
            escrows[id] # NoEscrow =>
                LET e == escrows[id]
                    n == Len(e.milestones) IN
                /\ e.paid_amount = SumSeq([i \in 1..n |-> PaidFor(id, e, i)])
                /\ \A i \in 1..n :
                    /\ e.milestones[i].status # "Approved" => sentBen[id][i] = 0
                    /\ (e.milestones[i].status = "Approved"
                            /\ e.milestones[i].approved_at # NoTime)
                        => sentBen[id][i] = e.milestones[i].amount
                    /\ sentBen[id][i] <= e.milestones[i].amount

C6_Witness ==
    /\ call = NoCall
    /\ last.op = "resolve_milestone_dispute"
    /\ last.res = "Ok"
    /\ escrows[last.id].milestones[1].status = "Approved"
    /\ escrows[last.id].milestones[1].amount = 2
    /\ escrows[last.id].paid_amount = 1

\* C7 as claimed: whenever no invocation is running, work_started is true
\* exactly when the status is not Pending.
C7_WorkStartedIffNotPending ==
    call = NoCall =>
        \A id \in EscrowIds :
            escrows[id] # NoEscrow =>
                (escrows[id].work_started <=> escrows[id].status # "Pending")

\* C7 as amended: whenever no invocation is running, work_started is true
\* exactly when the status is neither Pending nor Refunded.
C7_WorkStartedIffInWork ==
    call = NoCall =>
        \A id \in EscrowIds :
            escrows[id] # NoEscrow =>
                (escrows[id].work_started <=> escrows[id].status \notin {"Pending", "Refunded"})

C7_Witness ==
    /\ call = NoCall
    /\ last.op = "refund"
    /\ last.res = "Ok"
    /\ escrows[last.id].status = "Refunded"
    /\ ~escrows[last.id].work_started

\* The record of id is terminal: Released or Refunded, the refund that wrote
\* Refunded having returned.
Terminal(id) ==
    /\ Exists(id)
    /\ escrows[id].status \in {"Released", "Refunded"}
    /\ call = NoCall \/ call.pend.id # id

\* C8: once a record is Released or Refunded, no step changes any of its
\* fields, moves tokens of that escrow or starts a transfer for it.
C8_TerminalIsFrozen ==
    [][\A id \in EscrowIds :
        Terminal(id) =>
            /\ escrows'[id] = escrows[id]
            /\ sentBen'[id] = sentBen[id]
            /\ sentDep'[id] = sentDep[id]
            /\ (call' # NoCall /\ call' # call) => call'.pend.id # id]_vars

C8_Witness ==
    /\ call = NoCall
    /\ last.op = "start_work"
    /\ last.res = "AlreadyCompleted"
    /\ Exists(last.id)
    /\ escrows[last.id].status = "Refunded"
    /\ escrows[last.id].depositor # last.caller

\* C9 as claimed: once work_started is true, every call of refund on the
\* escrow fails with WorkStarted (stated for the calls made from outside with
\* the lock free).
C9_RefundAlwaysWorkStarted ==
    [][(last' # last /\ last'.op = "refund" /\ call = NoCall /\ ~lock
            /\ Exists(last'.id) /\ escrows[last'.id].work_started)
        => last'.res = "WorkStarted"]_vars

\* C9 as amended: once work_started is true, every call of refund on the
\* escrow fails and changes no record and no balance: with Reentrancy when the
\* lock is held, else with NotAuthorized when the caller is not the depositor,
\* else with WorkStarted.
C9_RefundFailsAfterWorkStarted ==
    [][(last' # last /\ last'.op = "refund"
            /\ Exists(last'.id) /\ escrows[last'.id].work_started)
        => /\ last'.res = (IF lock THEN "Reentrancy"
                           ELSE IF last'.caller # escrows[last'.id].depositor
                                THEN "NotAuthorized"
                                ELSE "WorkStarted")
           /\ escrows' = escrows
           /\ bal' = bal
           /\ call' = call]_vars

C9_Witness ==
    /\ call = NoCall
    /\ last.op = "refund"
    /\ last.res = "NotAuthorized"
    /\ Exists(last.id)
    /\ escrows[last.id].work_started
    /\ last.caller = escrows[last.id].beneficiary
    /\ now >= escrows[last.id].deadline

\* C10: a refund called by the depositor on a Pending escrow whose work has
\* not started goes through (to its transfer) if and only if now < deadline;
\* from the deadline on it fails with NotAuthorized and changes nothing.
C10_RefundWindow ==
    [][(last' # last /\ last'.op = "refund" /\ call = NoCall
            /\ Exists(last'.id)
            /\ last'.caller = escrows[last'.id].depositor
            /\ escrows[last'.id].status = "Pending"
            /\ ~escrows[last'.id].work_started)
        => IF now < escrows[last'.id].deadline
           THEN last'.res = "InFlight"
           ELSE /\ last'.res = "NotAuthorized"
                /\ escrows' = escrows
                /\ bal' = bal
                /\ call' = NoCall]_vars

\* The amounts of the milestones of the record e.
Amounts(e) == [i \in 1..Len(e.milestones) |-> e.milestones[i].amount]

\* The store and the balances as they were when no invocation was running.
AtRestStore == IF call = NoCall THEN Store ELSE call.saved.st
AtRestBal == IF call = NoCall THEN bal ELSE call.saved.g.bal

\* C11: when a refund returns Ok, the record it was called on was Pending and
\* is now Refunded with paid_amount 0, exactly total_amount (the sum of the
\* milestone amounts, which is what create took) has gone from the contract to
\* the depositor, and nothing of the escrow is left in the contract: what has
\* left it for the depositor is the whole total, nothing went to the beneficiary.
C11_RefundReturnsTotal ==
    [][(call # NoCall /\ call.op = "refund" /\ call' = NoCall /\ last'.res = "Ok")
        => LET id == call.id
               e == escrows'[id] IN
           /\ AtRestEscrows[id].status = "Pending"
           /\ e.status = "Refunded"
           /\ e.paid_amount = 0
           /\ e.total_amount = SumSeq(Amounts(e))
           /\ bal'[e.depositor] = AtRestBal[e.depositor] + e.total_amount
           /\ bal'[CONTRACT] = AtRestBal[CONTRACT] - e.total_amount
           /\ sentDep'[id] = e.total_amount
           /\ SumSeq(sentBen'[id]) = 0]_vars

C11_Witness ==
    /\ call = NoCall
    /\ last.op = "refund"
    /\ last.res = "Ok"
    /\ escrows[last.id].total_amount = 2
    /\ Len(escrows[last.id].milestones) = 2
    /\ bal[escrows[last.id].depositor] = Mint
    /\ bal[CONTRACT] = 0

\* C12: the counter never decreases, and a create that returns Ok returns the
\* counter plus one (1 when nothing was created before), an id that is greater
\* than the id of every record there is and that had no record, makes it the
\* counter, and leaves the records of the other ids as they were.
C12_IdsUniqueAndIncreasing ==
    [][/\ counter' >= counter
       /\ (last' # last /\ last'.op = "create" /\ last'.res = "Ok")
            => /\ last'.val = counter + 1
               /\ counter = 0 => last'.val = 1
               /\ \A id \in EscrowIds : AtRestEscrows[id] # NoEscrow => id < last'.val
               /\ escrows[last'.val] = NoEscrow
               /\ escrows'[last'.val] # NoEscrow
               /\ \A id \in EscrowIds \ {last'.val} : escrows'[id] = escrows[id]
               /\ counter' = last'.val]_vars

C12_Witness ==
    /\ call = NoCall
    /\ last.op = "create"
    /\ last.res = "Ok"
    /\ last.val = 2
    /\ counter = 2
    /\ escrows[1] # NoEscrow
    /\ escrows[2] # NoEscrow

\* C13: a create that fails in its validation or whose transfer fails leaves
\* the records and the counter as they were before the call: next_id returns
\* what it returned before, get_escrow finds nothing at the id that create
\* would have given, and a create that returns Ok returns that id.
C13_FailedCreateLeavesNoTrace ==
    [][/\ (last' # last /\ last'.op = "create"
                /\ last'.res \in CreateValidationErrors \cup {"Panic"})
            => LET before == IF last'.nested THEN Store ELSE AtRestStore
                   after == [lock |-> lock', counter |-> counter', escrows |-> escrows'] IN
               /\ after = before
               /\ next_id(after).res = next_id(before).res
               /\ next_id(after).val = next_id(before).val
               /\ get_escrow(after, peek_next_id(before)).res = "EscrowNotFound"
       /\ (last' # last /\ last'.op = "create" /\ last'.res = "Ok")
            => last'.val = peek_next_id(AtRestStore)]_vars

C13_Witness ==
    /\ call = NoCall
    /\ last.op = "create"
    /\ last.res = "Panic"
    /\ counter = 1
    /\ escrows[2] = NoEscrow
    /\ lock = FALSE

\* The error of create's validation as claimed: the preconditions in their
\* order, any amount that is not positive before the overflow of the sum.
\* None when all of them hold.
ValidationAsClaimed(d, b, a, ms, du, t) ==
    IF b = d THEN "InvalidBeneficiary"
    ELSE IF a \in {d, b} THEN "InvalidArbiter"
    ELSE IF ~(MIN_DURATION <= du /\ du <= MAX_DURATION) THEN "InvalidDuration"
    ELSE IF ms = <<>> THEN "InvalidMilestone"
    ELSE IF \E i \in 1..Len(ms) : ms[i] <= 0 THEN "ZeroAmount"
    ELSE IF SumSeq(ms) > I128_MAX THEN "InvalidMilestone"
    ELSE IF t + du > U64_MAX THEN "InvalidDeadline"
    ELSE None

\* The places of the list ms where an amount is not positive or takes the sum
\* of the amounts up to it over the largest i128.
BadAmounts(ms) ==
    {i \in 1..Len(ms) : ms[i] <= 0 \/ SumSeq(SubSeq(ms, 1, i)) > I128_MAX}

FirstBad(ms) == CHOOSE i \in BadAmounts(ms) : \A j \in BadAmounts(ms) : i <= j

\* The error of create's validation with the amounts taken in the order of the
\* list: the first amount that is not positive (ZeroAmount) or that overflows
\* the sum so far (InvalidMilestone) decides.
ValidationInListOrder(d, b, a, ms, du, t) ==
    IF b = d THEN "InvalidBeneficiary"
    ELSE IF a \in {d, b} THEN "InvalidArbiter"
    ELSE IF ~(MIN_DURATION <= du /\ du <= MAX_DURATION) THEN "InvalidDuration"
    ELSE IF ms = <<>> THEN "InvalidMilestone"
    ELSE IF BadAmounts(ms) # {}
         THEN (IF ms[FirstBad(ms)] <= 0 THEN "ZeroAmount" ELSE "InvalidMilestone")
    ELSE IF t + du > U64_MAX THEN "InvalidDeadline"
    ELSE None

\* Nothing of the contract or of the token has changed in the step.
NothingChanged ==
    /\ lock' = lock
    /\ counter' = counter
    /\ escrows' = escrows
    /\ bal' = bal
    /\ call' = call

C15_CreateStoresFreshRecord ==
    [][/\ (call = NoCall /\ last' # last /\ last'.op = "create" /\ last'.res = "InFlight")
            => \A d \in Depositors, b \in Beneficiaries, a \in Arbiters, ms \in AmountLists,
                  du \in Durations :
                    Create(d, b, a, ms, du)
                        => /\ Amounts(call'.pend.escrow) = ms
                           /\ call'.pend.escrow.depositor = d
                           /\ call'.pend.escrow.beneficiary = b
                           /\ call'.pend.escrow.arbiter = a
                           /\ call'.pend.escrow.deadline = now + du
       /\ (call # NoCall /\ call.op = "create" /\ call' = NoCall /\ last'.res = "Ok")
            => LET e == escrows'[last'.val] IN
               /\ e = call.pend.escrow
               /\ e.status = "Pending"
               /\ e.paid_amount = 0
               /\ e.work_started = FALSE
               /\ \A i \in 1..Len(e.milestones) :
                    /\ e.milestones[i].status = "NotStarted"
                    /\ e.milestones[i].submitted_at = NoTime
                    /\ e.milestones[i].approved_at = NoTime
                    /\ e.milestones[i].amount > 0
               /\ e.total_amount = SumSeq(Amounts(e))
               /\ bal'[CONTRACT] = AtRestBal[CONTRACT] + e.total_amount
               /\ bal'[e.depositor] = AtRestBal[e.depositor] - e.total_amount]_vars

C15_Witness ==
    /\ call = NoCall
    /\ last.op = "create"
    /\ last.res = "Ok"
    /\ escrows[last.val].status = "Pending"
    /\ Len(escrows[last.val].milestones) = 2
    /\ bal[CONTRACT] = 2
    /\ bal[escrows[last.val].depositor] = Mint - 2

\* Once work has started on an escrow it stays started and the status does
\* not return to Pending.
StartWorkIsOneWay ==
    \A id \in EscrowIds :
        (escrows[id] # NoEscrow /\ escrows[id].work_started)
            => /\ escrows'[id] # NoEscrow
               /\ escrows'[id].work_started
               /\ escrows'[id].status # "Pending"

\* C16 as claimed: start_work called by the beneficiary on an existing escrow
\* (from outside, the lock free) fails with AlreadyCompleted when the status is
\* not Pending, fails with WorkStarted only when the status is Pending and
\* work_started is true, succeeds only from Pending with work_started false,
\* and then sets work_started and the status InProgress; work_started is never
\* reset and the status never returns to Pending.
C16_StartWorkStatusFirst ==
    [][/\ (call = NoCall /\ ~lock /\ last' # last /\ last'.op = "start_work"
                /\ Exists(last'.id) /\ last'.caller = escrows[last'.id].beneficiary)
            => LET e == escrows[last'.id] IN
               /\ e.status # "Pending" => last'.res = "AlreadyCompleted"
               /\ last'.res = "WorkStarted" => (e.status = "Pending" /\ e.work_started)
               /\ last'.res = "Ok"
                    => /\ e.status = "Pending" /\ ~e.work_started
                       /\ escrows'[last'.id] =
                            [e EXCEPT !.work_started = TRUE, !.status = "InProgress"]
       /\ StartWorkIsOneWay]_vars

\* C16 as amended: start_work called by the beneficiary on an existing escrow
\* fails with Reentrancy when the lock is held, else with WorkStarted when
\* work_started is true (status InProgress, Disputed or Released), else with
\* AlreadyCompleted when the status is not Pending (Refunded), and else
\* succeeds and sets work_started and the status InProgress and nothing else;
\* a failing call changes nothing; work_started is never reset and the status
\* never returns to Pending.
C16_StartWorkFlagFirst ==
    [][/\ (last' # last /\ last'.op = "start_work"
                /\ Exists(last'.id) /\ last'.caller = escrows[last'.id].beneficiary)
            => LET e == escrows[last'.id] IN
               /\ last'.res = (IF lock THEN "Reentrancy"
                               ELSE IF e.work_started THEN "WorkStarted"
                               ELSE IF e.status # "Pending" THEN "AlreadyCompleted"
                               ELSE "Ok")
               /\ escrows' = (IF last'.res = "Ok"
                              THEN [escrows EXCEPT ![last'.id] =
                                        [e EXCEPT !.work_started = TRUE, !.status = "InProgress"]]
                              ELSE escrows)
               /\ bal' = bal
               /\ call' = call
               /\ lock' = lock
       /\ StartWorkIsOneWay]_vars

C16_Witness ==
    /\ call = NoCall
    /\ last.op = "start_work"
    /\ last.res = "WorkStarted"
    /\ Exists(last.id)
    /\ last.caller = escrows[last.id].beneficiary
    /\ escrows[last.id].status = "Disputed"
    /\ lock = FALSE

\* The payouts as they were when no invocation was running.
AtRestLedger == IF call = NoCall THEN Ledger ELSE call.saved.g

\* The milestone's status goes from a to b in the operation op.
MilestoneEdge(a, b, op) ==
    \/ a = b
    \/ a = "NotStarted" /\ b = "Submitted" /\ op = "submit_milestone"
    \/ a = "Submitted" /\ b = "Approved" /\ op = "approve_milestone"
    \/ a = "Submitted" /\ b = "Disputed" /\ op = "dispute_milestone"
    \/ a = "Disputed" /\ b = "Approved" /\ op = "resolve_milestone_dispute"

\* The amounts of the Approved milestones of the record e, 0 for the others.
ApprovedAmounts(e) ==
    [i \in 1..Len(e.milestones) |->
        IF e.milestones[i].status = "Approved" THEN e.milestones[i].amount ELSE 0]

\* C17: from one state with no invocation running to the next, the status of
\* each milestone stays or goes NotStarted -> Submitted (submit_milestone),
\* Submitted -> Approved (approve_milestone), Submitted -> Disputed
\* (dispute_milestone) or Disputed -> Approved (resolve_milestone_dispute), so
\* that Approved is never left; tokens are paid for a milestone only in the
\* operation that makes it Approved, never more than its amount, and an escrow
\* that is not Refunded has paid out, to the beneficiary and to the depositor
\* together, exactly the amounts of its Approved milestones.
C17_MilestoneLifecycle ==
    [][call' = NoCall =>
        \A id \in EscrowIds :
            AtRestEscrows[id] # NoEscrow =>
                LET e0 == AtRestEscrows[id]
                    e1 == escrows'[id]
                    n == Len(e0.milestones) IN
                /\ e1 # NoEscrow
                /\ Len(e1.milestones) = n
                /\ \A i \in 1..n :
                    LET a == e0.milestones[i].status
                        b == e1.milestones[i].status IN
                    /\ MilestoneEdge(a, b, last'.op)
                    /\ a # b => last'.id = id
                    /\ e1.milestones[i].amount = e0.milestones[i].amount
                    /\ sentBen'[id][i] # AtRestLedger.sentBen[id][i]
                        => /\ a # "Approved" /\ b = "Approved"
                           /\ AtRestLedger.sentBen[id][i] = 0
                    /\ sentBen'[id][i] <= e1.milestones[i].amount
                /\ (sentDep'[id] # AtRestLedger.sentDep[id] /\ e1.status # "Refunded")
                    => \E i \in 1..n : /\ e0.milestones[i].status = "Disputed"
                                        /\ e1.milestones[i].status = "Approved"
                /\ e1.status # "Refunded"
                    => SumSeq(sentBen'[id]) + sentDep'[id] = SumSeq(ApprovedAmounts(e1))]_vars

C17_Witness ==
    /\ call = NoCall
    /\ last.op = "resolve_milestone_dispute"
    /\ last.res = "Ok"
    /\ Len(escrows[last.id].milestones) = 2
    /\ \A i \in 1..2 : escrows[last.id].milestones[i].status = "Approved"
    /\ SumSeq(sentBen[last.id]) = 1
    /\ sentDep[last.id] = 1

\* The index i is one of a milestone of the escrow id.
InRange(id, i) == i < Len(escrows[id].milestones)

\* C18: approve_milestone and dispute_milestone called (from outside) by the
\* depositor with an index in range on a milestone that is not Submitted fail
\* with MilestoneNotSubmitted and change no record, no balance and not the lock.
C18_NotSubmittedIsRejected ==
    [][(call = NoCall /\ last' # last
            /\ last'.op \in {"approve_milestone", "dispute_milestone"})
        => \A c \in Callers, id \in EscrowIds, i \in Indexes :
            (/\ ApproveMilestone(c, id, i) \/ DisputeMilestone(c, id, i)
             /\ Exists(id)
             /\ c = escrows[id].depositor
             /\ InRange(id, i)
             /\ escrows[id].milestones[i + 1].status # "Submitted")
                => last'.res = "MilestoneNotSubmitted" /\ NothingChanged]_vars

\* C19: a submit_milestone (called from outside) that succeeds was called by
\* the beneficiary on an InProgress escrow with the index of a NotStarted
\* milestone, and sets that milestone's status to Submitted and its
\* submitted_at to now and nothing else; called by the beneficiary on an
\* InProgress escrow it fails with InvalidMilestone when the index is out of
\* range and with MilestoneAlreadySubmitted when the milestone is not
\* NotStarted; it never moves tokens and never changes paid_amount.
C19_SubmitMilestone ==
    [][(call = NoCall /\ last' # last /\ last'.op = "submit_milestone")
        => \A c \in Callers, id \in EscrowIds, i \in Indexes :
            (SubmitMilestone(c, id, i) /\ Exists(id))
                => LET e == escrows[id] IN
                   /\ bal' = bal
                   /\ call' = NoCall
                   /\ escrows'[id].paid_amount = e.paid_amount
                   /\ last'.res = "Ok"
                        => /\ c = e.beneficiary
                           /\ e.status = "InProgress"
                           /\ InRange(id, i)
                           /\ e.milestones[i + 1].status = "NotStarted"
                           /\ escrows' = [escrows EXCEPT ![id].milestones[i + 1] =
                                    [@ EXCEPT !.status = "Submitted",
                                              !.submitted_at = Some(now)]]
                   /\ (c = e.beneficiary /\ e.status = "InProgress" /\ ~InRange(id, i))
                        => last'.res = "InvalidMilestone" /\ escrows' = escrows
                   /\ (c = e.beneficiary /\ e.status = "InProgress" /\ InRange(id, i)
                            /\ e.milestones[i + 1].status # "NotStarted")
                        => last'.res = "MilestoneAlreadySubmitted" /\ escrows' = escrows]_vars

\* C20: while an escrow is Disputed, no submit_milestone, approve_milestone or
\* dispute_milestone called on it (from outside, the lock free) succeeds or
\* gets as far as a transfer, and no tokens of the escrow move except in
\* resolve_milestone_dispute.
C20_DisputeSuspendsActivity ==
    [][\A id \in EscrowIds :
        (AtRestEscrows[id] # NoEscrow /\ AtRestEscrows[id].status = "Disputed")
            => /\ (call = NoCall /\ ~lock /\ last' # last /\ last'.id = id
                        /\ last'.op \in {"submit_milestone", "approve_milestone",
                                          "dispute_milestone"})
                    => last'.res \notin {"Ok", "InFlight"}
               /\ (sentBen'[id] # sentBen[id] \/ sentDep'[id] # sentDep[id])
                    => call.op = "resolve_milestone_dispute"]_vars

\* C21: a resolve_milestone_dispute called with the index i and the amount
\* pay that gets to a transfer was called by the arbiter on a Disputed
\* milestone of amount a with 0 <= pay <= a; when it returns Ok the beneficiary
\* has pay more than before the call, the depositor a - pay more and the
\* contract a less, and the record differs from what it was only in
\* paid_amount, which is pay more, in the milestone's status, which is
\* Approved, and in the escrow's status, which is InProgress.
C21_ResolveSplitsTheMilestone ==
    [][/\ (call = NoCall /\ last' # last /\ last'.op = "resolve_milestone_dispute"
                /\ last'.res = "InFlight")
            => \A c \in Callers, id \in EscrowIds, i \in Indexes, p \in Pays :
                ResolveMilestoneDispute(c, id, i, p)
                    => /\ call'.pend.idx = i
                       /\ call'.pend.pay = p
                       /\ c = escrows[id].arbiter
                       /\ InRange(id, i)
                       /\ escrows[id].milestones[i + 1].status = "Disputed"
                       /\ 0 <= p /\ p <= escrows[id].milestones[i + 1].amount
       /\ (call # NoCall /\ call.op = "resolve_milestone_dispute" /\ call' # NoCall)
            => call'.pend.idx = call.pend.idx /\ call'.pend.pay = call.pend.pay
       /\ (call # NoCall /\ call.op = "resolve_milestone_dispute" /\ call' = NoCall
                /\ last'.res = "Ok")
            => LET id == call.id
                   i == call.pend.idx + 1
                   pay == call.pend.pay
                   e0 == AtRestEscrows[id]
                   a == e0.milestones[i].amount IN
               /\ bal'[e0.beneficiary] = AtRestBal[e0.beneficiary] + pay
               /\ bal'[e0.depositor] = AtRestBal[e0.depositor] + (a - pay)
               /\ bal'[CONTRACT] = AtRestBal[CONTRACT] - a
               /\ escrows'[id] = [e0 EXCEPT !.paid_amount = @ + pay,
                                            !.milestones[i].status = "Approved",
                                            !.status = "InProgress"]]_vars

C21_Witness ==
    /\ call = NoCall
    /\ last.op = "resolve_milestone_dispute"
    /\ last.res = "Ok"
    /\ escrows[last.id].milestones[1].status = "Approved"
    /\ escrows[last.id].milestones[1].amount = 2
    /\ escrows[last.id].paid_amount = 0
    /\ sentDep[last.id] = 2
    /\ escrows[last.id].status = "InProgress"

\* C22: a resolve_milestone_dispute called (from outside) by the arbiter on a
\* Disputed milestone with an amount below 0 or above the milestone's amount
\* fails with InvalidMilestone and changes no record, no balance and not the
\* lock.
C22_PayOutOfRangeIsRejected ==
    [][(call = NoCall /\ last' # last /\ last'.op = "resolve_milestone_dispute")
        => \A c \in Callers, id \in EscrowIds, i \in Indexes, p \in Pays :
            (/\ ResolveMilestoneDispute(c, id, i, p)
             /\ Exists(id)
             /\ c = escrows[id].arbiter
             /\ InRange(id, i)
             /\ escrows[id].milestones[i + 1].status = "Disputed"
             /\ p < 0 \/ p > escrows[id].milestones[i + 1].amount)
                => last'.res = "InvalidMilestone" /\ NothingChanged]_vars

\* The party of the escrow e that the operation op is for.
RoleOf(op, e) ==
    CASE op \in {"start_work", "submit_milestone"} -> e.beneficiary
      [] op \in {"approve_milestone", "dispute_milestone", "refund"} -> e.depositor
      [] op = "resolve_milestone_dispute" -> e.arbiter

\* C23: a call (from outside) of start_work, submit_milestone,
\* approve_milestone, dispute_milestone, refund or resolve_milestone_dispute
\* on an existing escrow succeeds, or gets as far as a transfer, only when the
\* caller is the party the operation is for; called by anyone else it fails
\* with NotAuthorized and changes no record, no balance and not the lock.
C23_RoleAuthorization ==
    [][(call = NoCall /\ last' # last /\ last'.op \in IdOps /\ Exists(last'.id))
        => LET e == escrows[last'.id] IN
           /\ last'.res \in {"Ok", "InFlight"} => last'.caller = RoleOf(last'.op, e)
           /\ last'.caller # RoleOf(last'.op, e)
                => last'.res = "NotAuthorized" /\ NothingChanged]_vars

C25_CreationFieldsAreFrozen ==
    [][\A id \in EscrowIds :
        /\ escrows[id] # NoEscrow
            => /\ escrows'[id] # NoEscrow
               /\ escrows'[id].depositor = escrows[id].depositor
               /\ escrows'[id].beneficiary = escrows[id].beneficiary
               /\ escrows'[id].arbiter = escrows[id].arbiter
               /\ escrows'[id].token = escrows[id].token
               /\ escrows'[id].total_amount = escrows[id].total_amount
               /\ escrows'[id].deadline = escrows[id].deadline
               /\ Amounts(escrows'[id]) = Amounts(escrows[id])
        /\ escrows'[id] # NoEscrow
            => /\ escrows'[id].total_amount = SumSeq(Amounts(escrows'[id]))
               /\ escrows'[id].depositor # escrows'[id].beneficiary
               /\ escrows'[id].arbiter # escrows'[id].depositor
               /\ escrows'[id].arbiter # escrows'[id].beneficiary]_vars

C25_Witness ==
    /\ call = NoCall
    /\ last.op = "dispute_milestone"
    /\ last.res = "Ok"
    /\ escrows[last.id].status = "Disputed"
    /\ escrows[last.id].total_amount = 2
    /\ Len(escrows[last.id].milestones) = 2
    /\ escrows[last.id].paid_amount = 1
    /\ now > escrows[last.id].deadline

\* The amounts of the milestones of the record e that are not Approved, 0 for
\* the others.
OpenAmounts(e) ==
    [i \in 1..Len(e.milestones) |->
        IF e.milestones[i].status # "Approved" THEN e.milestones[i].amount ELSE 0]

\* What the contract holds for the escrow id: nothing when there is no record
\* or the record is Refunded, else the amounts of the milestones that are not
\* Approved.
Held(id) ==
    IF escrows[id] = NoEscrow \/ escrows[id].status = "Refunded" THEN 0
    ELSE SumSeq(OpenAmounts(escrows[id]))

RECURSIVE HeldUpTo(_)
HeldUpTo(n) == IF n = 0 THEN 0 ELSE Held(n) + HeldUpTo(n - 1)

\* C26: whenever no invocation is running, the contract's balance is the sum
\* over the escrows of what it holds for each (the milestones not Approved of
\* the escrows not Refunded), and for each escrow total_amount is what was
\* paid to the beneficiary plus what went back to the depositor plus what is
\* held.
C26_Solvency ==
    call = NoCall =>
        /\ bal[CONTRACT] = HeldUpTo(U32_MAX)
        /\ \A id \in EscrowIds :
            escrows[id] # NoEscrow =>
                escrows[id].total_amount = SumSeq(sentBen[id]) + sentDep[id] + Held(id)

C26_Witness ==
    /\ call = NoCall
    /\ last.op = "approve_milestone"
    /\ last.res = "Ok"
    /\ escrows[last.id].status = "Disputed"
    /\ escrows[last.id].milestones[1].status = "Approved"
    /\ escrows[last.id].milestones[2].status = "Disputed"
    /\ bal[CONTRACT] = 1

\* C27: whenever no invocation is running, the status of an escrow is
\* Disputed exactly when one of its milestones is Disputed.
C27_DisputedIffMilestoneDisputed ==
    call = NoCall =>
        \A id \in EscrowIds :
            escrows[id] # NoEscrow =>
                (escrows[id].status = "Disputed"
                    <=> \E i \in 1..Len(escrows[id].milestones) :
                            escrows[id].milestones[i].status = "Disputed")

\* All the milestones of the record e are Approved.
AllApproved(e) == \A i \in 1..Len(e.milestones) : e.milestones[i].status = "Approved"

\* C28: the status of a record is Pending, InProgress, Disputed or Refunded,
\* never Released; a record whose milestones are all Approved, no invocation
\* running, is InProgress, has given out its whole total_amount, and is not
\* changed by any step.
C28_ReleasedIsUnreachable ==
    [][\A id \in EscrowIds :
        escrows'[id] # NoEscrow =>
            /\ escrows'[id].status \in {"Pending", "InProgress", "Disputed", "Refunded"}
            /\ (call' = NoCall /\ AllApproved(escrows'[id]))
                => /\ escrows'[id].status = "InProgress"
                   /\ escrows'[id].paid_amount + sentDep'[id] = escrows'[id].total_amount
            /\ (call = NoCall /\ escrows[id] # NoEscrow /\ AllApproved(escrows[id]))
                => escrows'[id] = escrows[id]]_vars

C28_Witness ==
    /\ call = NoCall
    /\ last.op = "submit_milestone"
    /\ last.res = "MilestoneAlreadySubmitted"
    /\ Len(escrows[last.id].milestones) = 2
    /\ AllApproved(escrows[last.id])
    /\ escrows[last.id].status = "InProgress"
    /\ escrows[last.id].paid_amount = 1
    /\ sentDep[last.id] = 1

\* The record e without the timestamps of its milestones.
Untimed(e) ==
    IF e = NoEscrow THEN e
    ELSE [e EXCEPT !.milestones =
            [i \in 1..Len(e.milestones) |->
                [e.milestones[i] EXCEPT !.submitted_at = NoTime, !.approved_at = NoTime]]]

\* What a handler has done, the timestamps it wrote left out: its result, the
\* store it leaves and the transfer it asks for.
Outcome(r) ==
    [res |-> r.res,
     lock |-> r.st.lock,
     counter |-> r.st.counter,
     escrows |-> [id \in DOMAIN r.st.escrows |-> Untimed(r.st.escrows[id])],
     transfer |-> IF r.pend = NoPend THEN NoPend
                  ELSE [from |-> r.pend.from, to |-> r.pend.to, amount |-> r.pend.amount]]

\* The record of id is Pending, its work has not started and its deadline has
\* passed.
Expired(id) ==
    /\ escrows[id] # NoEscrow
    /\ escrows[id].status = "Pending"
    /\ ~escrows[id].work_started
    /\ now >= escrows[id].deadline

\* C29: when the time goes on, over the deadline or not, start_work,
\* submit_milestone, approve_milestone, dispute_milestone and
\* resolve_milestone_dispute do after it what they did before it, for every
\* caller, id, index and amount, but for the timestamps they write; a Pending
\* escrow whose work has not started and whose deadline has passed stays so,
\* with its tokens in the contract, until start_work called by the beneficiary
\* succeeds: no refund of it succeeds or gets to a transfer and no other step
\* changes its record or moves its tokens.
C29_DeadlineConstrainsRefundOnly ==
    [][/\ now' # now
            => \A op \in IdOps \ {"refund"}, c \in Callers, id \in EscrowIds \cup {MissingId},
                  i \in Indexes :
                \A p \in (IF op = "resolve_milestone_dispute" THEN Pays ELSE {0}) :
                    Outcome(Invoke(op, Store, c, id, i, p, now'))
                        = Outcome(Invoke(op, Store, c, id, i, p, now))
       /\ \A id \in EscrowIds :
            Expired(id)
                => /\ (last' # last /\ last'.op = "refund" /\ last'.id = id)
                        => last'.res \notin {"Ok", "InFlight"}
                   /\ escrows'[id] # escrows[id]
                        => /\ last'.op = "start_work"
                           /\ last'.res = "Ok"
                           /\ last'.caller = escrows[id].beneficiary
                           /\ last'.id = id
                   /\ sentBen'[id] = sentBen[id]
                   /\ sentDep'[id] = sentDep[id]
                   /\ bal'[CONTRACT] >= escrows[id].total_amount]_vars

C29_Witness ==
    /\ call = NoCall
    /\ last.op = "refund"
    /\ last.res = "NotAuthorized"
    /\ Expired(last.id)
    /\ last.caller = escrows[last.id].depositor
    /\ bal[CONTRACT] = escrows[last.id].total_amount
    /\ lock = FALSE

\* What the contract holds for the record e.
HeldOf(e) ==
    IF e = NoEscrow \/ e.status = "Refunded" THEN 0 ELSE SumSeq(OpenAmounts(e))

\* The id of the escrow that the step works on: the one of the invocation
\* that is running, else the one of the call that is made.
Addressed ==
    IF call # NoCall THEN call.pend.id
    ELSE IF call' # NoCall THEN call'.pend.id
    ELSE last'.id

====
